---- MODULE Spec2Model ----
(***************************************************************************)
(* Model of opm-common's PAvgCalculator                                    *)
(* (src/opm/input/eclipse/Schedule/Well/PAvgCalculator.cpp): the weighted  *)
(* running averages, the Accumulator, the connection topology, the         *)
(* pressure offsets and inferBlockAveragePressures.                        *)
(*                                                                         *)
(* Numbers.  The code computes in IEEE doubles.  The model computes in     *)
(* exact rational arithmetic: a number is a pair <<n, d>> with d > 0 and   *)
(* gcd(n, d) = 1.  Rounding is therefore not modelled; every statement     *)
(* below is a statement about the code's arithmetic in exact numbers.      *)
(*                                                                         *)
(* Style.  Intermediate values of the code (its locals) are handed to a    *)
(* continuation operator (Foo2, Foo3, ...) as parameters rather than       *)
(* bound by LET, so that every operator is applied at one place only.      *)
(***************************************************************************)
EXTENDS Integers, Sequences, FiniteSets, TLC

(***************************************************************************)
(* Exact rational arithmetic (the model's stand-in for double).            *)
(***************************************************************************)
Abs(n)  == IF n < 0 THEN -n ELSE n
Sign(n) == IF n < 0 THEN -1 ELSE 1

RECURSIVE GCD(_, _)
GCD(a, b) == IF b = 0 THEN a ELSE GCD(b, a % b)

Reduce(n, d, g) == <<n \div g, d \div g>>
\* n / d in lowest terms, for d > 0.
RNorm(n, d) == Reduce(n, d, GCD(Abs(n), d))

R(n)        == <<n, 1>>
Zero        == <<0, 1>>
One         == <<1, 1>>
Half        == <<1, 2>>
RAdd(x, y)  == RNorm(x[1] * y[2] + y[1] * x[2], x[2] * y[2])
RSub(x, y)  == RNorm(x[1] * y[2] - y[1] * x[2], x[2] * y[2])
RMul(x, y)  == RNorm(x[1] * y[1], x[2] * y[2])
\* x / y, for y # 0.
RDiv(x, y)  == RNorm(Sign(y[1]) * x[1] * y[2], x[2] * Abs(y[1]))
RAbs(x)     == <<Abs(x[1]), x[2]>>
RLess(x, y) == x[1] * y[2] < y[1] * x[2]

(***************************************************************************)
(* RunningCompensatedSummation<T>: value_ and err_.                        *)
(***************************************************************************)
RCSZero == [value |-> Zero, err |-> Zero]

\* A faulty operator+=: the term is parked in err_ and value_ is left as it
\* was.
RCSAdd3KeepValue(t, err1, val) == [value |-> t, err |-> err1]

\* operator+=(const T& x):
\*   t = value_;  err_ += x;  value_ = t + err_;  err_ += t - value_.
RCSAdd3(t, err1, val) == [value |-> val, err |-> RAdd(err1, RSub(t, val))]
RCSAdd2(t, err1)      == RCSAdd3(t, err1, RAdd(t, err1))
RCSAdd(s, x)          == RCSAdd2(s.value, RAdd(s.err, x))

(***************************************************************************)
(* WeightedRunningAverage<T, W>: sum_ and weight_.                         *)
(***************************************************************************)
WRAZero == [sum |-> RCSZero, weight |-> RCSZero]

\* RunningCompensatedSummation::clear() and WeightedRunningAverage::clear().
RCSClear(s)   == [value |-> Zero, err |-> Zero]
WRAClear(avg) == [sum |-> RCSClear(avg.sum), weight |-> RCSClear(avg.weight)]

\* A faulty value(avg): T{1} instead of T{} for a zero weight.
ValueDefaultOne(avg) ==
    IF RLess(Zero, RAbs(avg.weight.value))
    THEN RDiv(avg.sum.value, avg.weight.value)
    ELSE One

\* value(avg): sum / weight if |weight| > 0, else T{}.
Value(avg) ==
    IF RLess(Zero, RAbs(avg.weight.value))
    THEN RDiv(avg.sum.value, avg.weight.value)
    ELSE Zero

\* add(x, w): sum_ += w * x; weight_ += w.
WRAAdd(avg, x, w) ==
    [sum |-> RCSAdd(avg.sum, RMul(w, x)), weight |-> RCSAdd(avg.weight, w)]

\* add(const WeightedRunningAverage& x, w): add(value(x), w).
WRAAddAvg(avg, x, w) == WRAAdd(avg, Value(x), w)

\* operator+=(const WeightedRunningAverage& other): sum_ += other.sum_ and
\* weight_ += other.weight_; RunningCompensatedSummation's operator+=(other)
\* adds other.value_ and discards other.err_.
WRAPlus(avg, other) ==
    [sum    |-> RCSAdd(avg.sum, other.sum.value),
     weight |-> RCSAdd(avg.weight, other.weight.value)]

(***************************************************************************)
(* PAvgCalculator::Accumulator::Impl: avg_[0..3] (WBP, WBP4, WBP5, WBP9)   *)
(* and term_[0..2] (centre, rectangular, diagonal).                        *)
(***************************************************************************)
WBPModes == 0..3
Terms    == 0..2

AvgZero  == [i \in WBPModes |-> WRAZero]
TermZero == [i \in Terms |-> WRAZero]
AccumulatorNew == [avg |-> AvgZero, term |-> TermZero]

\* A faulty handler table: every handler adds to term_[0].
HandlerTermCentreOnly(handler) == 0

\* The term_ index a pressure term handler adds to: addCentre term_[0],
\* addRectangular term_[1], addDiagonal term_[2].
HandlerTerm(handler) ==
    IF handler = "addCentre" THEN 0
    ELSE IF handler = "addRectangular" THEN 1
    ELSE 2

\* std::invoke(handler, accumulator, weight, press), handler one of
\* &Accumulator::addCentre, addRectangular, addDiagonal:
\* term_[..].add(press, weight).
Invoke(handler, a, weight, press) ==
    [a EXCEPT !.term[HandlerTerm(handler)] = WRAAdd(@, press, weight)]

AddCentre(a, weight, press)      == Invoke("addCentre", a, weight, press)
AddRectangular(a, weight, press) == Invoke("addRectangular", a, weight, press)
AddDiagonal(a, weight, press)    == Invoke("addDiagonal", a, weight, press)

\* A faulty prepareAccumulation: the results are left as they are.
PrepareAccumulationKeep(a) == a

\* prepareAccumulation(): clear(avg_).
PrepareAccumulation(a) == [a EXCEPT !.avg = [i \in WBPModes |-> WRAClear(a.avg[i])]]

\* prepareContribution(): clear(term_).
PrepareContribution(a) == [a EXCEPT !.term = [i \in Terms |-> WRAClear(a.term[i])]]

\* A faulty combineDirect: the diagonal term is left out of avg_[3].
CombineDirectNoDiagonal(a) ==
    [a EXCEPT
       !.avg[2] = WRAPlus(WRAPlus(@, a.term[0]), a.term[1]),
       !.avg[3] = WRAPlus(WRAPlus(@, a.term[0]), a.term[1])]

\* combineDirect(): avg_[2] += term_[0], term_[1]; avg_[3] += term_[0..2].
CombineDirect(a) ==
    [a EXCEPT
       !.avg[2] = WRAPlus(WRAPlus(@, a.term[0]), a.term[1]),
       !.avg[3] = WRAPlus(WRAPlus(WRAPlus(@, a.term[0]), a.term[1]), a.term[2])]

\* A faulty combineWeighted: the outer terms are weighted with innerWeight
\* too.
CombineWeightedSameWeight(a, innerWeight) ==
    [a EXCEPT
       !.avg[2] = WRAAddAvg(WRAAddAvg(@, a.term[0], innerWeight),
                            a.term[1], innerWeight),
       !.avg[3] = WRAAddAvg(WRAAddAvg(@, a.term[0], innerWeight),
                            WRAPlus(a.term[1], a.term[2]), innerWeight)]

\* combineWeighted(innerWeight): outer = term_[1]; outer += term_[2].
CombineWeighted(a, innerWeight) ==
    [a EXCEPT
       !.avg[2] = WRAAddAvg(WRAAddAvg(@, a.term[0], innerWeight),
                            a.term[1], RSub(One, innerWeight)),
       !.avg[3] = WRAAddAvg(WRAAddAvg(@, a.term[0], innerWeight),
                            WRAPlus(a.term[1], a.term[2]), RSub(One, innerWeight))]

\* A faulty first half of commitContribution: the centre and rectangular
\* terms are exchanged.
CommitUnweightedSwapped(a) ==
    [a EXCEPT !.avg[0] = WRAPlus(@, a.term[1]),
              !.avg[1] = WRAPlus(@, a.term[0])]

\* The first two statements of commitContribution:
\* avg_[0] += term_[0]; avg_[1] += term_[1].
CommitUnweighted(a) ==
    [a EXCEPT !.avg[0] = WRAPlus(@, a.term[0]),
              !.avg[1] = WRAPlus(@, a.term[1])]

\* commitContribution(innerWeight).
CommitContribution(a, innerWeight) ==
    IF RLess(innerWeight, Zero)
    THEN CombineDirect(CommitUnweighted(a))
    ELSE CombineWeighted(CommitUnweighted(a), innerWeight)

\* add(weight, other): avg_[i].add(other.avg_[i], weight) for every i.
AccAdd(a, weight, other) ==
    [a EXCEPT !.avg = [i \in WBPModes |-> WRAAddAvg(a.avg[i], other.avg[i], weight)]]

\* getAverageValue(type).
GetAverageValue(a, type) == Value(a.avg[type])

\* getFinalResult(): the four values as a Result.
GetFinalResult(a) == [t \in WBPModes |-> GetAverageValue(a, t)]

\* A faulty getRunningAverages: each pair is written weight first.
GetRunningAveragesWeightFirst(a) ==
    [j \in 1..8 |->
        IF j % 2 = 1 THEN a.avg[(j - 1) \div 2].weight.value
                     ELSE a.avg[(j - 2) \div 2].sum.value]

\* getRunningAverages(): a[2i] = avg_[i].sum(), a[2i + 1] = avg_[i].weight();
\* the buffer is a sequence, a[j] of the code being element j + 1.
GetRunningAverages(a) ==
    [j \in 1..8 |->
        IF j % 2 = 1 THEN a.avg[(j - 1) \div 2].sum.value
                     ELSE a.avg[(j - 2) \div 2].weight.value]

\* assignRunningAverages(a): mutableSum() = a[2i], mutableWeight() =
\* a[2i + 1]; the error terms stay as they are.
AssignRunningAverages(a, buf) ==
    [a EXCEPT !.avg = [i \in WBPModes |->
        [sum    |-> [value |-> buf[2 * i + 1], err |-> a.avg[i].sum.err],
         weight |-> [value |-> buf[2 * i + 2], err |-> a.avg[i].weight.err]]]]

(***************************************************************************)
(* Grid index map (GridDims, outside this translation unit): natural       *)
(* ordering, I fastest.  GridShape is the <<NX, NY, NZ>> of the grid the   *)
(* calculator is constructed on.                                           *)
(***************************************************************************)
GridShape == <<2, 2, 1>>
NX == GridShape[1]
NY == GridShape[2]
NZ == GridShape[3]
GridCells == 0 .. (NX * NY * NZ - 1)

GetGlobalIndex(i, j, k) == i + j * NX + k * NX * NY
GetIJK(g) == <<g % NX, (g \div NX) % NY, g \div (NX * NY)>>

\* std::size_t arithmetic wraps around.  The modulus 2^64 is beyond TLC's
\* integers; 2^16 stands in for it (far above every grid dimension used).
SizeModulus == 2^16
SizeInc(i) == (i + 1) % SizeModulus
SizeDec(i) == (i - 1) % SizeModulus

\* std::optional<std::size_t> is modelled as a set with at most one element.
GlobalCellIndex(i, j, k) ==
    IF (i >= NX) \/ (j >= NY) \/ (k >= NZ)
    THEN {}
    ELSE {GetGlobalIndex(i, j, k)}

(***************************************************************************)
(* Topology construction.  The builder state is                            *)
(*   cells : contributingCells_ (sequence of global cell ids; the local    *)
(*           index i of the code is position i + 1 of the sequence),       *)
(*   conns : connections_ (PAvgConnection records),                        *)
(*   open  : openConns_ (indices into connections_),                       *)
(*   map   : setupHelperMap (global cell id -> local index).               *)
(***************************************************************************)
At(seq, i) == seq[i + 1]

TopoEmpty == [cells |-> <<>>, conns |-> <<>>, open |-> <<>>, map |-> <<>>]

\* SetupMap::emplace(key, val): the mapped value and whether it was inserted.
\* The map is a sequence of <<key, value>> pairs.
MapHas(map, key) == \E n \in 1..Len(map) : map[n][1] = key
MapGet(map, key) == (CHOOSE n \in 1..Len(map) : map[n][1] = key)
\* A faulty emplace: the key is entered again even when the map holds it.
EmplaceAlways(map, key, val) ==
    [map |-> Append(map, <<key, val>>), second |-> val, inserted |-> TRUE]

Emplace(map, key, val) ==
    IF MapHas(map, key)
    THEN [map |-> map, second |-> map[MapGet(map, key)][2], inserted |-> FALSE]
    ELSE [map |-> Append(map, <<key, val>>), second |-> val, inserted |-> TRUE]

\* addNeighbour(neighbour, neighbourKind, setupHelperMap).
AddNeighbour(st, neighbour, kind) ==
    IF neighbour = {} THEN st
    ELSE
      LET g    == CHOOSE x \in neighbour : TRUE
          e    == Emplace(st.map, g, Len(st.cells))
          cs   == IF e.inserted THEN Append(st.cells, g) ELSE st.cells
          last == Len(st.conns)
      IN  [st EXCEPT
             !.map   = e.map,
             !.cells = cs,
             !.conns[last] =
                 IF kind = "Rectangular"
                 THEN [@ EXCEPT !.rectNeighbours = Append(@, e.second)]
                 ELSE [@ EXCEPT !.diagNeighbours = Append(@, e.second)]]

RECURSIVE AddNeighbourList(_, _)
AddNeighbourList(st, cands) ==
    IF cands = <<>> THEN st
    ELSE AddNeighbourList(AddNeighbour(st, Head(cands)[1], Head(cands)[2]),
                          Tail(cands))

\* lastConnsCell().
LastConnsCell(st) == At(st.cells, st.conns[Len(st.conns)].cell)

\* addNeighbours_X / _Y / _Z: the eight candidates in the code's order.
AddNeighbours_X(st) ==
    LET ijk == GetIJK(LastConnsCell(st))
        i == ijk[1]  j == ijk[2]  k == ijk[3]
    IN  AddNeighbourList(st, <<
          <<GlobalCellIndex(i, j, SizeInc(k)), "Rectangular">>,
          <<GlobalCellIndex(i, j, SizeDec(k)), "Rectangular">>,
          <<GlobalCellIndex(i, SizeInc(j), k), "Rectangular">>,
          <<GlobalCellIndex(i, SizeDec(j), k), "Rectangular">>,
          <<GlobalCellIndex(i, SizeInc(j), SizeInc(k)), "Diagonal">>,
          <<GlobalCellIndex(i, SizeInc(j), SizeDec(k)), "Diagonal">>,
          <<GlobalCellIndex(i, SizeDec(j), SizeInc(k)), "Diagonal">>,
          <<GlobalCellIndex(i, SizeDec(j), SizeDec(k)), "Diagonal">> >>)

AddNeighbours_Y(st) ==
    LET ijk == GetIJK(LastConnsCell(st))
        i == ijk[1]  j == ijk[2]  k == ijk[3]
    IN  AddNeighbourList(st, <<
          <<GlobalCellIndex(SizeInc(i), j, k), "Rectangular">>,
          <<GlobalCellIndex(SizeDec(i), j, k), "Rectangular">>,
          <<GlobalCellIndex(i, j, SizeInc(k)), "Rectangular">>,
          <<GlobalCellIndex(i, j, SizeDec(k)), "Rectangular">>,
          <<GlobalCellIndex(SizeInc(i), j, SizeInc(k)), "Diagonal">>,
          <<GlobalCellIndex(SizeDec(i), j, SizeInc(k)), "Diagonal">>,
          <<GlobalCellIndex(SizeInc(i), j, SizeDec(k)), "Diagonal">>,
          <<GlobalCellIndex(SizeDec(i), j, SizeDec(k)), "Diagonal">> >>)

AddNeighbours_Z(st) ==
    LET ijk == GetIJK(LastConnsCell(st))
        i == ijk[1]  j == ijk[2]  k == ijk[3]
    IN  AddNeighbourList(st, <<
          <<GlobalCellIndex(SizeInc(i), j, k), "Rectangular">>,
          <<GlobalCellIndex(SizeDec(i), j, k), "Rectangular">>,
          <<GlobalCellIndex(i, SizeInc(j), k), "Rectangular">>,
          <<GlobalCellIndex(i, SizeDec(j), k), "Rectangular">>,
          <<GlobalCellIndex(SizeInc(i), SizeInc(j), k), "Diagonal">>,
          <<GlobalCellIndex(SizeDec(i), SizeInc(j), k), "Diagonal">>,
          <<GlobalCellIndex(SizeInc(i), SizeDec(j), k), "Diagonal">>,
          <<GlobalCellIndex(SizeDec(i), SizeDec(j), k), "Diagonal">> >>)

\* A faulty addConnection: every connection is entered in openConns_,
\* whatever its state.
AddConnectionAllOpen(st, conn) ==
    LET e   == Emplace(st.map, conn.global_index, Len(st.cells))
        cs  == IF e.inserted THEN Append(st.cells, conn.global_index) ELSE st.cells
        pc  == [ctf |-> conn.CF, depth |-> conn.depth, cell |-> e.second,
                rectNeighbours |-> <<>>, diagNeighbours |-> <<>>]
        st1 == [cells |-> cs, conns |-> Append(st.conns, pc),
                open |-> Append(st.open, Len(st.conns)), map |-> e.map]
    IN  IF conn.dir = "X" THEN AddNeighbours_X(st1)
        ELSE IF conn.dir = "Y" THEN AddNeighbours_Y(st1)
        ELSE IF conn.dir = "Z" THEN AddNeighbours_Z(st1)
        ELSE st1

\* addConnection(cellIndexMap, conn, setupHelperMap).
AddConnection(st, conn) ==
    LET e   == Emplace(st.map, conn.global_index, Len(st.cells))
        cs  == IF e.inserted THEN Append(st.cells, conn.global_index) ELSE st.cells
        op  == IF conn.state = "OPEN" THEN Append(st.open, Len(st.conns)) ELSE st.open
        pc  == [ctf |-> conn.CF, depth |-> conn.depth, cell |-> e.second,
                rectNeighbours |-> <<>>, diagNeighbours |-> <<>>]
        st1 == [cells |-> cs, conns |-> Append(st.conns, pc), open |-> op,
                map |-> e.map]
    IN  IF conn.dir = "X" THEN AddNeighbours_X(st1)
        ELSE IF conn.dir = "Y" THEN AddNeighbours_Y(st1)
        ELSE IF conn.dir = "Z" THEN AddNeighbours_Z(st1)
        ELSE st1

\* PAvgCalculator(cellIndexMap, connections): addConnection for each, in order.
RECURSIVE BuildFrom(_, _)
BuildFrom(st, connections) ==
    IF connections = <<>> THEN st
    ELSE BuildFrom(AddConnection(st, Head(connections)), Tail(connections))

Construct(connections) == BuildFrom(TopoEmpty, connections)

(***************************************************************************)
(* pruneInactiveWBPCells(isActive).  isActive is a sequence of booleans,   *)
(* one per contributing cell.                                              *)
(***************************************************************************)
\* activeIx: the indices i in 0..n-1 with isActive[i], ascending.
RECURSIVE ActiveIx(_, _)
ActiveIx(isActive, n) ==
    IF n = 0 THEN <<>>
    ELSE IF isActive[n]
         THEN Append(ActiveIx(isActive, n - 1), n - 1)
         ELSE ActiveIx(isActive, n - 1)

\* newWBPCells: contributingCells_[origCell] for origCell in activeIx.
NewWBPCells(cells, activeIx) == [k \in 1..Len(activeIx) |-> At(cells, activeIx[k])]

\* A faulty newIndex: the zero-initialised vector, never filled in.
NewIndexUnfilled(activeIx, n) == [i \in 0..(n - 1) |-> 0]

\* newIndex: zero-initialised, then newIndex[activeIx[i]] = i.
NewIndex(activeIx, n) ==
    [i \in 0..(n - 1) |->
        IF \E k \in 1..Len(activeIx) : activeIx[k] = i
        THEN (CHOOSE k \in 1..Len(activeIx) : activeIx[k] = i) - 1
        ELSE 0]

\* A faulty newNeigbour: inactive neighbours are renumbered like the
\* others instead of being dropped.
NewNeighbourRemapped(neighbours, isActive, newIndex) ==
    [n \in 1..Len(neighbours) |-> newIndex[neighbours[n]]]

\* newNeigbour: newIndex[neighbour] for the neighbours with
\* isActive[neighbour], in order.
RECURSIVE NewNeighbour(_, _, _)
NewNeighbour(neighbours, isActive, newIndex) ==
    IF neighbours = <<>> THEN <<>>
    ELSE IF At(isActive, Head(neighbours))
         THEN <<newIndex[Head(neighbours)]>>
              \o NewNeighbour(Tail(neighbours), isActive, newIndex)
         ELSE NewNeighbour(Tail(neighbours), isActive, newIndex)

\* The renumbering of one connection.
Renumber(conn, isActive, newIndex) ==
    [conn EXCEPT
       !.cell = newIndex[conn.cell],
       !.rectNeighbours = NewNeighbour(@, isActive, newIndex),
       !.diagNeighbours = NewNeighbour(@, isActive, newIndex)]

\* The part of pruneInactiveWBPCells after the all-active early return.
PruneWith(topo, isActive, activeIx, newIndex) ==
    [topo EXCEPT
       !.cells = NewWBPCells(topo.cells, activeIx),
       !.conns = [c \in 1..Len(topo.conns) |->
                     Renumber(topo.conns[c], isActive, newIndex)]]

PruneInactiveWBPCells2(topo, isActive, activeIx) ==
    IF Len(activeIx) = Len(isActive)
    THEN topo
    ELSE PruneWith(topo, isActive, activeIx, NewIndex(activeIx, Len(isActive)))

PruneInactiveWBPCells(topo, isActive) ==
    PruneInactiveWBPCells2(topo, isActive, ActiveIx(isActive, Len(isActive)))

(***************************************************************************)
(* Pressure offsets (depth correction).                                    *)
(*   topo     : [cells, conns, open] of the calculator                     *)
(*   sources  : [wellBlocks : global cell id -> [Pressure, PoreVol,        *)
(*               MixtureDensity], wellConns : connection index ->          *)
(*               [MixtureDensity]]                                         *)
(*   controls : [open_connections, inner_weight, conn_weight,              *)
(*               depth_correction]                                         *)
(***************************************************************************)
\* pressureOffset(density, depth, gravity, refDepth).
PressureOffset(density, depth, gravity, refDepth) ==
    RMul(RMul(density, RSub(refDepth, depth)), gravity)

\* A faulty connection index: no translation through openConns_.
ConnIndexIdentity(topo, useOpen, i) == i

\* The two ConnIndexMap lambdas: identity, or openConns_[i].
ConnIndex(topo, useOpen, i) == IF useOpen THEN At(topo.open, i) ELSE i

\* The density lambda of connectionPressureOffsetWell.
WellDensity(sources, connIx) == sources.wellConns[connIx].MixtureDensity

\* connectionPressureOffsetWell(nconn, sources, gravity, refDepth, connIndex).
ConnectionPressureOffsetWell(topo, nconn, sources, gravity, refDepth, useOpen) ==
    [n \in 1..nconn |->
        PressureOffset(WellDensity(sources, ConnIndex(topo, useOpen, n - 1)),
                       At(topo.conns, ConnIndex(topo, useOpen, n - 1)).depth,
                       gravity, refDepth)]

\* includeDensity(i): density.add(src[MixtureDensity], src[PoreVol]).
IncludeDensity(density, topo, sources, i) ==
    WRAAdd(density,
           sources.wellBlocks[At(topo.cells, i)].MixtureDensity,
           sources.wellBlocks[At(topo.cells, i)].PoreVol)

RECURSIVE IncludeDensities(_, _, _, _)
IncludeDensities(density, topo, sources, idxs) ==
    IF idxs = <<>> THEN density
    ELSE IncludeDensities(IncludeDensity(density, topo, sources, Head(idxs)),
                          topo, sources, Tail(idxs))

\* The cells one iteration of connectionPressureOffsetRes includes: the
\* connection's cell, then its rectangular, then its diagonal neighbours.
ResCells(conn) == <<conn.cell>> \o conn.rectNeighbours \o conn.diagNeighbours

\* A faulty density reset: the running average is carried over.
ClearDensityKeep(density) == density

\* density.clear() at the top of each iteration.
ClearDensity(density) == WRAClear(density)

\* The loop of connectionPressureOffsetRes over connID: dp holds the
\* entries assigned so far, density is the running average declared before
\* the loop.
RECURSIVE ResLoop(_, _, _, _, _, _, _, _, _)
ResLoop3(dp, density, topo, nconn, sources, gravity, refDepth, useOpen, connID) ==
    ResLoop(Append(dp, PressureOffset(Value(density),
                       At(topo.conns, ConnIndex(topo, useOpen, connID)).depth,
                       gravity, refDepth)),
            density, topo, nconn, sources, gravity, refDepth, useOpen, connID + 1)

ResLoop(dp, density, topo, nconn, sources, gravity, refDepth, useOpen, connID) ==
    IF connID >= nconn THEN dp
    ELSE ResLoop3(dp,
                  IncludeDensities(ClearDensity(density), topo, sources,
                      ResCells(At(topo.conns, ConnIndex(topo, useOpen, connID)))),
                  topo, nconn, sources, gravity, refDepth, useOpen, connID)

\* connectionPressureOffsetRes(nconn, sources, gravity, refDepth, connIndex).
ConnectionPressureOffsetRes(topo, nconn, sources, gravity, refDepth, useOpen) ==
    ResLoop(<<>>, WRAZero, topo, nconn, sources, gravity, refDepth, useOpen, 0)

\* std::isnormal(gravity): the model's numbers are finite rationals, so
\* "normal" is "non-zero".
IsNormal(x) == x # Zero

\* A faulty nconn: every connection counted whatever the flag.
NumProcessedAll(topo, controls) == Len(topo.conns)

\* nconn of connectionPressureOffset.
NumProcessed(topo, controls) ==
    IF controls.open_connections THEN Len(topo.open) ELSE Len(topo.conns)

\* A faulty connectionPressureOffset: a depth correction that is neither
\* NONE nor RES is treated as WELL instead of being rejected.
ConnectionPressureOffsetLenient(topo, sources, controls, gravity, refDepth) ==
    IF (controls.depth_correction = "NONE") \/ ~IsNormal(gravity)
    THEN [ok |-> TRUE, dp |-> [n \in 1..NumProcessed(topo, controls) |-> Zero]]
    ELSE IF controls.depth_correction = "RES"
    THEN [ok |-> TRUE,
          dp |-> ConnectionPressureOffsetRes(topo, NumProcessed(topo, controls),
                     sources, gravity, refDepth, controls.open_connections)]
    ELSE [ok |-> TRUE,
          dp |-> ConnectionPressureOffsetWell(topo, NumProcessed(topo, controls),
                     sources, gravity, refDepth, controls.open_connections)]

\* connectionPressureOffset(sources, controls, gravity, refDepth): the
\* offsets, or the std::invalid_argument thrown (ok = FALSE).
ConnectionPressureOffset(topo, sources, controls, gravity, refDepth) ==
    IF (controls.depth_correction = "NONE") \/ ~IsNormal(gravity)
    THEN [ok |-> TRUE, dp |-> [n \in 1..NumProcessed(topo, controls) |-> Zero]]
    ELSE IF controls.depth_correction = "RES"
    THEN [ok |-> TRUE,
          dp |-> ConnectionPressureOffsetRes(topo, NumProcessed(topo, controls),
                     sources, gravity, refDepth, controls.open_connections)]
    ELSE IF controls.depth_correction # "WELL"
    THEN [ok |-> FALSE, dp |-> <<>>]
    ELSE [ok |-> TRUE,
          dp |-> ConnectionPressureOffsetWell(topo, NumProcessed(topo, controls),
                     sources, gravity, refDepth, controls.open_connections)]

(***************************************************************************)
(* accumulateLocalContributions and assignResults.  The loop state st is   *)
(* [ctf, pv, c]: accumCTF_, accumPV_ and the local accumCTF_c.             *)
(***************************************************************************)
\* ctfPressWeight(src): PoreVol when F1 < 0, else 1.0.
CtfPressWeight(controls, src) ==
    IF RLess(controls.inner_weight, Zero) THEN src.PoreVol ELSE One

\* A faulty addContrib: accumPV_ is fed with the weight of the CTF-based
\* samples, ctfPressWeight(src).
AddContrib2SameWeight(st, controls, src, p, handler) ==
    [st EXCEPT
       !.c  = Invoke(handler, @, CtfPressWeight(controls, src), p),
       !.pv = Invoke(handler, @, CtfPressWeight(controls, src), p)]

\* The body of addContrib, given src and p = src[Pressure] + dp.
AddContrib2(st, controls, src, p, handler) ==
    [st EXCEPT !.c  = Invoke(handler, @, CtfPressWeight(controls, src), p),
               !.pv = Invoke(handler, @, src.PoreVol, p)]

\* A faulty addContrib: the offset dp is not added to the pressure.
AddContribNoOffset(st, topo, sources, controls, i, dp, handler) ==
    AddContrib2(st, controls, sources.wellBlocks[At(topo.cells, i)],
                sources.wellBlocks[At(topo.cells, i)].Pressure, handler)

\* A faulty addContrib: the source entry is addressed by the local index i.
AddContribLocalEntry(st, topo, sources, controls, i, dp, handler) ==
    AddContrib2(st, controls, sources.wellBlocks[i],
                RAdd(sources.wellBlocks[i].Pressure, dp), handler)

\* addContrib(i, dp, handler).
AddContrib(st, topo, sources, controls, i, dp, handler) ==
    AddContrib2(st, controls, sources.wellBlocks[At(topo.cells, i)],
                RAdd(sources.wellBlocks[At(topo.cells, i)].Pressure, dp), handler)

\* The addContrib calls of one connection, in order, as <<index, handler>>:
\* the cell with addCentre, then the handlers array (rectNeighbours with
\* addRectangular, diagNeighbours with addDiagonal).
ContribCalls(conn) ==
    << <<conn.cell, "addCentre">> >>
    \o [n \in 1..Len(conn.rectNeighbours) |-> <<conn.rectNeighbours[n], "addRectangular">>]
    \o [n \in 1..Len(conn.diagNeighbours) |-> <<conn.diagNeighbours[n], "addDiagonal">>]

RECURSIVE AddContribs(_, _, _, _, _, _)
AddContribs(st, topo, sources, controls, calls, dp) ==
    IF calls = <<>> THEN st
    ELSE AddContribs(AddContrib(st, topo, sources, controls,
                                Head(calls)[1], dp, Head(calls)[2]),
                     topo, sources, controls, Tail(calls), dp)

\* accumCTF_c.prepareAccumulation(); accumCTF_c.prepareContribution().
PrepareLocal(st) == [st EXCEPT !.c = PrepareContribution(PrepareAccumulation(@))]

\* accumCTF_c.commitContribution(controls.inner_weight()).
CommitLocal(st, controls) ==
    [st EXCEPT !.c = CommitContribution(@, controls.inner_weight)]

\* accumCTF_.add(conn.ctf, accumCTF_c).
FoldLocal(st, conn) == [st EXCEPT !.ctf = AccAdd(@, conn.ctf, st.c)]

\* One iteration of the loop over connID, for connection conn.
ConnectionStep2(st, topo, sources, controls, dp, conn) ==
    FoldLocal(
        CommitLocal(
            AddContribs(PrepareLocal(st), topo, sources, controls,
                        ContribCalls(conn), dp),
            controls),
        conn)

ConnectionStep(st, topo, sources, controls, connDP, useOpen, connID) ==
    ConnectionStep2(st, topo, sources, controls, At(connDP, connID),
                    At(topo.conns, ConnIndex(topo, useOpen, connID)))

RECURSIVE ConnectionLoop(_, _, _, _, _, _, _)
ConnectionLoop(st, topo, sources, controls, connDP, useOpen, connID) ==
    IF connID >= Len(connDP) THEN st
    ELSE ConnectionLoop(
           ConnectionStep(st, topo, sources, controls, connDP, useOpen, connID),
           topo, sources, controls, connDP, useOpen, connID + 1)

\* Accumulator::commitContribution()'s default argument, declared in the
\* class's header: the call that ends accumulateLocalContributions passes
\* no argument.
DefaultInnerWeight == <<-1, 1>>

\* A faulty commit of accumPV_: the F1-weighted combination with F1 = 1/2.
CommitPVHalf(st) == [ctf |-> st.ctf, pv |-> CommitContribution(st.pv, Half)]

\* this->accumPV_.commitContribution().
CommitPV(st) == [ctf |-> st.ctf, pv |-> CommitContribution(st.pv, DefaultInnerWeight)]

\* The templated accumulateLocalContributions(sources, controls, connDP,
\* connIndex, ctfPressWeight), from the two accumulators ctf and pv.
AccumulateLoop(ctf, pv, topo, sources, controls, connDP, useOpen) ==
    CommitPV(ConnectionLoop([ctf |-> PrepareContribution(ctf),
                             pv  |-> PrepareContribution(pv),
                             c   |-> AccumulatorNew],
                            topo, sources, controls, connDP, useOpen, 0))

\* A faulty combination: the second operand is dropped.
LinearCombinationFirstOnly(alpha, x, beta, y) ==
    [t \in WBPModes |-> RMul(alpha, x[t])]

\* linearCombination(alpha, x, beta, y).
LinearCombination(alpha, x, beta, y) ==
    [t \in WBPModes |-> RAdd(RMul(alpha, x[t]), RMul(beta, y[t]))]

\* assignResults(controls).
AssignResults(ctf, pv, controls) ==
    LinearCombination(controls.conn_weight, GetFinalResult(ctf),
                      RSub(One, controls.conn_weight), GetFinalResult(pv))

(***************************************************************************)
(* State.                                                                  *)
(***************************************************************************)
VARIABLES
    wellConnections,    \* the connections the calculator was constructed from
    contributingCells,  \* PAvgCalculator::contributingCells_
    connections,        \* PAvgCalculator::connections_
    openConns,          \* PAvgCalculator::openConns_
    accumCTF,           \* PAvgCalculator::accumCTF_
    accumPV,            \* PAvgCalculator::accumPV_
    averagePressures,   \* PAvgCalculator::averagePressures_
    status,             \* outcome of the last call: "init", "ok", "error"
    lastArgs,           \* arguments of the last call (<<>> before the first)
    connDP,             \* the offsets the last call computed
    acc,                \* a stand-alone PAvgCalculator::Accumulator
    lastOp,             \* the last operation applied to acc, with its arguments
    nOps,               \* number of add/commit operations applied to acc
    rankAcc,            \* the Accumulators of two ranks, each fed part of the connections
    wholeAcc,           \* an Accumulator fed every connection
    reducedAcc,         \* the Accumulator the reduced running averages are assigned to
    rankOp,             \* the last operation of the reduction: "new", "add", "reduce", "reinject"
    nAdds,              \* number of add(weight, other) calls of the reduction
    mean,               \* a WeightedRunningAverage on its own
    samples             \* the samples added to mean since it was last cleared

calcVars == <<wellConnections, contributingCells, connections, openConns, accumCTF, accumPV,
              averagePressures, status, lastArgs, connDP>>
accVars  == <<acc, lastOp, nOps>>
rankVars == <<rankAcc, wholeAcc, reducedAcc, rankOp, nAdds>>
meanVars == <<mean, samples>>
vars     == <<wellConnections, contributingCells, connections, openConns, accumCTF, accumPV,
              averagePressures, status, lastArgs, connDP, acc, lastOp, nOps,
              rankAcc, wholeAcc, reducedAcc, rankOp, nAdds, mean, samples>>

Topo == [cells |-> contributingCells, conns |-> connections, open |-> openConns]

(***************************************************************************)
(* Bounds and input sets.                                                  *)
(***************************************************************************)
MaxConns == 2
MaxOps   == 5
MaxAdds  == 3
MaxSamples == 4

\* The ranks of a distributed run.
Ranks == {0, 1}

\* The connections a well is constructed from (Connection: global_index(),
\* state(), CF(), depth(), dir()).
ConnChoices ==
    { [global_index |-> 0, state |-> "OPEN", CF |-> R(2), depth |-> R(10), dir |-> "Y"],
      [global_index |-> 1, state |-> "SHUT", CF |-> R(1), depth |-> R(20), dir |-> "Z"],
      [global_index |-> 3, state |-> "OPEN", CF |-> R(3), depth |-> R(30), dir |-> "X"],
      [global_index |-> 2, state |-> "OPEN", CF |-> R(0), depth |-> R(20), dir |-> "Z"] }

ConnLists == UNION { [1..n -> ConnChoices] : n \in 0..MaxConns }

\* Per-cell source data, addressed by global cell id.
BlockTables ==
    { [c \in GridCells |->
         [Pressure |-> R(100 - 10 * c),
          PoreVol  |-> R(IF c % 2 = 0 THEN 10 ELSE 5),
          MixtureDensity |-> R(c + 1)]],
      [c \in GridCells |->
         [Pressure |-> R(50 + 20 * c),
          PoreVol  |-> Zero,
          MixtureDensity |-> R(2)]],
      [c \in GridCells |->
         [Pressure |-> R(60 + 3 * c * c),
          PoreVol  |-> R(c),
          MixtureDensity |-> R(4 - c)]] }

\* Per-connection source data, addressed by connection index.
ConnTables ==
    { [c \in 0..MaxConns |-> [MixtureDensity |-> R(3 + 2 * c)]] }

SourceChoices == [wellBlocks : BlockTables, wellConns : ConnTables]

DepthCorrections == {"NONE", "WELL", "RES", "OTHER"}

ControlChoices ==
    [open_connections : BOOLEAN,
     inner_weight     : {R(-1), Half},
     conn_weight      : {Zero, Half, One},
     depth_correction : DepthCorrections]

GravityChoices  == {Zero, R(2)}
RefDepthChoices == {R(5)}

ResultZero == [t \in WBPModes |-> Zero]

(***************************************************************************)
(* The calculator: construction and inferBlockAveragePressures.            *)
(***************************************************************************)
AccInit ==
    /\ acc = AccumulatorNew
    /\ lastOp = [op |-> "new", args |-> <<>>]
    /\ nOps = 0
    /\ rankAcc = [r \in Ranks |-> AccumulatorNew]
    /\ wholeAcc = AccumulatorNew
    /\ reducedAcc = AccumulatorNew
    /\ rankOp = "new"
    /\ nAdds = 0
    /\ mean = WRAZero
    /\ samples = <<>>

\* PAvgCalculator(cellIndexMap, connections).
CalcInit2(connList, t) ==
    /\ wellConnections = connList
    /\ contributingCells = t.cells
    /\ connections = t.conns
    /\ openConns = t.open
    /\ accumCTF = AccumulatorNew
    /\ accumPV = AccumulatorNew
    /\ averagePressures = ResultZero
    /\ status = "init"
    /\ lastArgs = <<>>
    /\ connDP = <<>>

CalcInit(connList) == CalcInit2(connList, Construct(connList))

Init ==
    /\ \E connList \in ConnLists : CalcInit(connList)
    /\ AccInit

\* The end of a call that did not throw: r holds the two accumulators after
\* accumulateLocalContributions; collectGlobalContributions() is empty;
\* assignResults(controls).
InferReturns(controls, dp, r) ==
    /\ accumCTF' = r.ctf
    /\ accumPV' = r.pv
    /\ averagePressures' = AssignResults(r.ctf, r.pv, controls)
    /\ connDP' = dp
    /\ status' = "ok"

\* A faulty failing call: the published Result is reset with the
\* accumulators.
InferThrowsReset ==
    /\ accumCTF' = PrepareAccumulation(accumCTF)
    /\ accumPV' = PrepareAccumulation(accumPV)
    /\ averagePressures' = ResultZero
    /\ connDP' = <<>>
    /\ status' = "error"

\* The call throws out of connectionPressureOffset: the two accumulators
\* have been zeroed by prepareAccumulation(), nothing else has changed.
InferThrows ==
    /\ accumCTF' = PrepareAccumulation(accumCTF)
    /\ accumPV' = PrepareAccumulation(accumPV)
    /\ UNCHANGED averagePressures
    /\ connDP' = <<>>
    /\ status' = "error"

\* accumulateLocalContributions(sources, controls, gravity, refDepth), given
\* the outcome off of connectionPressureOffset.
Infer2(sources, controls, off) ==
    IF off.ok
    THEN InferReturns(controls, off.dp,
            AccumulateLoop(PrepareAccumulation(accumCTF), PrepareAccumulation(accumPV),
                           Topo, sources, controls, off.dp, controls.open_connections))
    ELSE InferThrows

\* inferBlockAveragePressures(sources, controls, gravity, refDepth).
InferBlockAveragePressures(sources, controls, gravity, refDepth) ==
    /\ status = "init"
    /\ lastArgs' = <<[sources |-> sources, controls |-> controls,
                      gravity |-> gravity, refDepth |-> refDepth]>>
    /\ UNCHANGED <<wellConnections, contributingCells, connections, openConns>>
    /\ UNCHANGED <<accVars, rankVars, meanVars>>
    /\ Infer2(sources, controls,
              ConnectionPressureOffset(Topo, sources, controls, gravity, refDepth))

Infer ==
    \E sources \in SourceChoices, controls \in ControlChoices,
       gravity \in GravityChoices, refDepth \in RefDepthChoices :
        InferBlockAveragePressures(sources, controls, gravity, refDepth)

Next == Infer

Spec == Init /\ [][Next]_vars

(***************************************************************************)
(* The stand-alone Accumulator: its public operations, one action each.    *)
(* MaxOps bounds the number of add and commit operations of a behaviour.   *)
(***************************************************************************)
\* <<weight, press>> of the samples fed to addCentre, addRectangular and
\* addDiagonal.
CentreSamples == { <<R(1), R(100)>>, <<R(3), R(80)>> }
RectSamples   == { <<R(2), R(70)>> }
DiagSamples   == { <<R(1), R(40)>> }

\* The inner weights commitContribution is called with.
InnerWeightChoices == { R(-2), R(-1), Zero, Half, One }

InitAcc ==
    /\ CalcInit(<<>>)
    /\ AccInit

AccAddCentre(weight, press) ==
    /\ nOps < MaxOps
    /\ acc' = AddCentre(acc, weight, press)
    /\ lastOp' = [op |-> "addCentre", args |-> <<weight, press>>]
    /\ nOps' = nOps + 1
    /\ UNCHANGED <<calcVars, rankVars, meanVars>>

AccAddRectangular(weight, press) ==
    /\ nOps < MaxOps
    /\ acc' = AddRectangular(acc, weight, press)
    /\ lastOp' = [op |-> "addRectangular", args |-> <<weight, press>>]
    /\ nOps' = nOps + 1
    /\ UNCHANGED <<calcVars, rankVars, meanVars>>

AccAddDiagonal(weight, press) ==
    /\ nOps < MaxOps
    /\ acc' = AddDiagonal(acc, weight, press)
    /\ lastOp' = [op |-> "addDiagonal", args |-> <<weight, press>>]
    /\ nOps' = nOps + 1
    /\ UNCHANGED <<calcVars, rankVars, meanVars>>

AccPrepareAccumulation ==
    /\ acc' = PrepareAccumulation(acc)
    /\ lastOp' = [op |-> "prepareAccumulation", args |-> <<>>]
    /\ UNCHANGED <<nOps, calcVars, rankVars, meanVars>>

AccPrepareContribution ==
    /\ acc' = PrepareContribution(acc)
    /\ lastOp' = [op |-> "prepareContribution", args |-> <<>>]
    /\ UNCHANGED <<nOps, calcVars, rankVars, meanVars>>

AccCommitContribution(innerWeight) ==
    /\ nOps < MaxOps
    /\ acc' = CommitContribution(acc, innerWeight)
    /\ lastOp' = [op |-> "commitContribution", args |-> <<innerWeight>>]
    /\ nOps' = nOps + 1
    /\ UNCHANGED <<calcVars, rankVars, meanVars>>

NextAcc ==
    \/ \E s \in CentreSamples : AccAddCentre(s[1], s[2])
    \/ \E s \in RectSamples : AccAddRectangular(s[1], s[2])
    \/ \E s \in DiagSamples : AccAddDiagonal(s[1], s[2])
    \/ AccPrepareAccumulation
    \/ AccPrepareContribution
    \/ \E w \in InnerWeightChoices : AccCommitContribution(w)

SpecAcc == InitAcc /\ [][NextAcc]_vars

(***************************************************************************)
(* connectionPressureOffset on its own: a const member function of the     *)
(* constructed calculator, applied once to arguments drawn from the sets   *)
(* below.  connDP holds the vector it returns.                             *)
(***************************************************************************)
OffsetBlockTables ==
    { [c \in GridCells |->
         [Pressure |-> R(100),
          PoreVol  |-> R(IF c % 2 = 0 THEN 10 ELSE 5),
          MixtureDensity |-> R(1000 - 100 * c)]],
      [c \in GridCells |->
         [Pressure |-> R(100),
          PoreVol  |-> Zero,
          MixtureDensity |-> R(1000)]],
      [c \in GridCells |->
         [Pressure |-> R(100),
          PoreVol  |-> R(c),
          MixtureDensity |-> R(800 + 50 * c)]] }

OffsetConnTables ==
    { [c \in 0..MaxConns |-> [MixtureDensity |-> R(800 + 200 * c)]],
      [c \in 0..MaxConns |-> [MixtureDensity |-> R(900)]] }

OffsetSourceChoices == [wellBlocks : OffsetBlockTables, wellConns : OffsetConnTables]

OffsetControlChoices ==
    [open_connections : BOOLEAN,
     inner_weight     : {Half},
     conn_weight      : {One},
     depth_correction : DepthCorrections]

OffsetGravityChoices  == {Zero, R(10)}
OffsetRefDepthChoices == {Zero, R(15)}

\* The outcome off of connectionPressureOffset, recorded.
OffsetCall2(off) ==
    /\ connDP' = off.dp
    /\ status' = IF off.ok THEN "ok" ELSE "error"

ConnectionPressureOffsetCall(sources, controls, gravity, refDepth) ==
    /\ status = "init"
    /\ lastArgs' = <<[sources |-> sources, controls |-> controls,
                      gravity |-> gravity, refDepth |-> refDepth]>>
    /\ OffsetCall2(ConnectionPressureOffset(Topo, sources, controls, gravity, refDepth))
    /\ UNCHANGED <<wellConnections, contributingCells, connections, openConns,
                   accumCTF, accumPV, averagePressures>>
    /\ UNCHANGED <<accVars, rankVars, meanVars>>

NextOffset ==
    \E sources \in OffsetSourceChoices, controls \in OffsetControlChoices,
       gravity \in OffsetGravityChoices, refDepth \in OffsetRefDepthChoices :
        ConnectionPressureOffsetCall(sources, controls, gravity, refDepth)

SpecOffset == Init /\ [][NextOffset]_vars
(***************************************************************************)
(* The topology under pruning: construction, then calls of                 *)
(* pruneInactiveWBPCells with masks of the contributing-cell list's        *)
(* length.  lastArgs records the mask of the last call.                    *)
(***************************************************************************)
Masks(n) == [1..n -> BOOLEAN]

PruneAssign(t) ==
    /\ contributingCells' = t.cells
    /\ connections' = t.conns

PruneCall(isActive) ==
    /\ Len(isActive) = Len(contributingCells)
    /\ PruneAssign(PruneInactiveWBPCells(Topo, isActive))
    /\ lastArgs' = <<[isActive |-> isActive]>>
    /\ UNCHANGED <<wellConnections, openConns, accumCTF, accumPV,
                   averagePressures, status, connDP>>
    /\ UNCHANGED <<accVars, rankVars, meanVars>>

NextPrune == \E isActive \in Masks(Len(contributingCells)) : PruneCall(isActive)

SpecPrune == Init /\ [][NextPrune]_vars

(***************************************************************************)
(* The distributed reduction: every rank folds its own connections into    *)
(* its Accumulator with add(weight, other); the running averages of the    *)
(* ranks are exported, summed element by element and assigned back.        *)
(* wholeAcc is fed every connection, as a single process would.            *)
(***************************************************************************)
\* The per-connection Accumulators add(weight, other) is called with, each
\* one committed, and the connection factors they are weighted by.
OtherChoices ==
    { CommitContribution(AddRectangular(AddCentre(AccumulatorNew, One, R(100)),
                                        R(2), R(70)), Half),
      CommitContribution(AddDiagonal(AddCentre(AccumulatorNew, R(3), R(80)),
                                     One, R(40)), R(-1)),
      CommitContribution(AddCentre(AccumulatorNew, One, R(60)), One) }
CTFChoices == { One, R(3) }

\* The element-wise sum of two exported buffers (the global sum of the
\* reduction).
SumBuffers(a, b) == [j \in 1..8 |-> RAdd(a[j], b[j])]

RankAdd(r, weight, other) ==
    /\ nAdds < MaxAdds
    /\ rankAcc' = [rankAcc EXCEPT ![r] = AccAdd(@, weight, other)]
    /\ wholeAcc' = AccAdd(wholeAcc, weight, other)
    /\ rankOp' = "add"
    /\ nAdds' = nAdds + 1
    /\ UNCHANGED <<reducedAcc, calcVars, accVars, meanVars>>

GlobalSum ==
    /\ rankOp = "add"
    /\ reducedAcc' = AssignRunningAverages(rankAcc[0],
                        SumBuffers(GetRunningAverages(rankAcc[0]),
                                   GetRunningAverages(rankAcc[1])))
    /\ rankOp' = "reduce"
    /\ UNCHANGED <<rankAcc, wholeAcc, nAdds, calcVars, accVars, meanVars>>

Reinject ==
    /\ rankOp = "add"
    /\ reducedAcc' = AssignRunningAverages(wholeAcc, GetRunningAverages(wholeAcc))
    /\ rankOp' = "reinject"
    /\ UNCHANGED <<rankAcc, wholeAcc, nAdds, calcVars, accVars, meanVars>>

NextReduce ==
    \/ \E r \in Ranks, weight \in CTFChoices, other \in OtherChoices :
          RankAdd(r, weight, other)
    \/ GlobalSum
    \/ Reinject

SpecReduce == InitAcc /\ [][NextReduce]_vars

(***************************************************************************)
(* A WeightedRunningAverage on its own: add(x) with the default weight 1,  *)
(* and clear().  samples records what was added since the last clear().    *)
(***************************************************************************)
SampleChoices == { R(40), R(70), R(100), RDiv(R(-5), R(2)) }

MeanAdd(x) ==
    /\ Len(samples) < MaxSamples
    /\ mean' = WRAAdd(mean, x, One)
    /\ samples' = Append(samples, x)
    /\ UNCHANGED <<calcVars, accVars, rankVars>>

MeanClear ==
    /\ samples # <<>>
    /\ mean' = WRAClear(mean)
    /\ samples' = <<>>
    /\ UNCHANGED <<calcVars, accVars, rankVars>>

NextMean ==
    \/ \E x \in SampleChoices : MeanAdd(x)
    \/ MeanClear

SpecMean == InitAcc /\ [][NextMean]_vars

(***************************************************************************)
(* The stand-alone Accumulator with add(weight, other) among its           *)
(* operations: a per-connection Accumulator is filled and committed, and   *)
(* committed contributions are folded into it.                             *)
(***************************************************************************)
\* The contributions add(weight, other) is called with: a connection with
\* a centre cell only, committed with F1 = 1/2, and one with a rectangular
\* neighbour.
FoldChoices ==
    { CommitContribution(AddCentre(AccumulatorNew, One, R(60)), Half),
      CommitContribution(AddRectangular(AddCentre(AccumulatorNew, One, R(100)),
                                        R(2), R(70)), Half) }

AccAddOther(weight, other) ==
    /\ nOps < MaxOps
    /\ acc' = AccAdd(acc, weight, other)
    /\ lastOp' = [op |-> "add", args |-> <<weight, other>>]
    /\ nOps' = nOps + 1
    /\ UNCHANGED <<calcVars, rankVars, meanVars>>

NextFold ==
    \/ NextAcc
    \/ \E other \in FoldChoices : AccAddOther(R(2), other)

SpecFold == InitAcc /\ [][NextFold]_vars

(***************************************************************************)
(* Repeated calls of inferBlockAveragePressures on one calculator, none of *)
(* which throws.  lastArgs holds the arguments of the last call and, after *)
(* it, those of the call before.                                           *)
(***************************************************************************)
RepeatConnLists == { l \in ConnLists : Len(l) = 2 /\ l[1].global_index = 0 }

RepeatControls ==
    { c \in ControlChoices :
        c.conn_weight = Half /\ c.depth_correction \in {"NONE", "RES"} }

\* The source sets in which cell 1 has pore volume.
RepeatSources == { s \in SourceChoices : s.wellBlocks[1].PoreVol # Zero }

InitRepeat ==
    /\ \E connList \in RepeatConnLists : CalcInit(connList)
    /\ AccInit

InferAgain(sources, controls, gravity, refDepth) ==
    /\ lastArgs' = <<[sources |-> sources, controls |-> controls,
                      gravity |-> gravity, refDepth |-> refDepth]>>
                   \o SubSeq(lastArgs, 1, IF lastArgs = <<>> THEN 0 ELSE 1)
    /\ UNCHANGED <<wellConnections, contributingCells, connections, openConns>>
    /\ UNCHANGED <<accVars, rankVars, meanVars>>
    /\ Infer2(sources, controls,
              ConnectionPressureOffset(Topo, sources, controls, gravity, refDepth))

NextRepeat ==
    \E sources \in RepeatSources, controls \in RepeatControls :
        InferAgain(sources, controls, R(2), R(5))

SpecRepeat == InitRepeat /\ [][NextRepeat]_vars

(***************************************************************************)
(* Repeated calls of inferBlockAveragePressures on one calculator, some of *)
(* which throw the unsupported-depth-correction error.                     *)
(***************************************************************************)
FailControls ==
    { c \in ControlChoices :
        /\ c.conn_weight = Half
        /\ c.inner_weight = Half
        /\ c.depth_correction \in {"RES", "OTHER"} }

NextFail ==
    \E sources \in RepeatSources, controls \in FailControls :
        InferAgain(sources, controls, R(2), R(5))

SpecFail == InitRepeat /\ [][NextFail]_vars

(***************************************************************************)
(* Vocabulary of the properties.  These definitions restate what the       *)
(* claims say in terms of the constructor's input (wellConnections), the   *)
(* arguments of the last call (lastArgs) and plain sums; they use none of  *)
(* the model's accumulator operators.                                      *)
(***************************************************************************)
LastCall     == lastArgs[1]
LastControls == lastArgs[1].controls
LastSources  == lastArgs[1].sources
Called       == status # "init"

\* The indices (from 0) of the OPEN connections among the first n, ascending.
RECURSIVE OpenAmong(_)
OpenAmong(n) ==
    IF n = 0 THEN <<>>
    ELSE IF wellConnections[n].state = "OPEN"
         THEN Append(OpenAmong(n - 1), n - 1)
         ELSE OpenAmong(n - 1)

\* The connections the last call processes, in processing order.
Processed ==
    IF LastControls.open_connections
    THEN OpenAmong(Len(wellConnections))
    ELSE [n \in 1..Len(wellConnections) |-> n - 1]

\* sum / weight of a running average, 0 when the weight is 0.
Quotient(sum, weight) == IF weight = Zero THEN Zero ELSE RDiv(sum, weight)
AvgOf(avg) == Quotient(avg.sum.value, avg.weight.value)

\* The source entry of the contributing cell with local index i.
CellData(i) == LastSources.wellBlocks[At(contributingCells, i)]

(***************************************************************************)
(* C1.  A calculator with exactly one connection (CTF = 2) that the call   *)
(* processes, whose cell has pressure 100 and pore volume 10 and whose     *)
(* only neighbour is one rectangular neighbour with pressure 90 and pore   *)
(* volume 5: inferBlockAveragePressures with F1 = 1/2, F2 = 1, gravity = 0 *)
(* publishes WBP = 100, WBP4 = 90, WBP5 = 95, WBP9 = 95.                   *)
(***************************************************************************)
C1_Scenario ==
    /\ status = "ok"
    /\ Len(connections) = 1
    /\ Len(Processed) = 1
    /\ connections[1].ctf = R(2)
    /\ Len(connections[1].rectNeighbours) = 1
    /\ connections[1].diagNeighbours = <<>>
    /\ CellData(connections[1].cell).Pressure = R(100)
    /\ CellData(connections[1].cell).PoreVol = R(10)
    /\ CellData(connections[1].rectNeighbours[1]).Pressure = R(90)
    /\ CellData(connections[1].rectNeighbours[1]).PoreVol = R(5)
    /\ LastControls.inner_weight = Half
    /\ LastControls.conn_weight = One
    /\ LastCall.gravity = Zero

C1_EndToEnd ==
    C1_Scenario =>
        /\ averagePressures[0] = R(100)
        /\ averagePressures[1] = R(90)
        /\ averagePressures[2] = R(95)
        /\ averagePressures[3] = R(95)

C1_Witness == C1_Scenario /\ averagePressures[2] = R(95)

(***************************************************************************)
(* C2.  After every successful inferBlockAveragePressures each published   *)
(* quantity q equals F2 * (value of q in accumCTF_) + (1 - F2) * (value of *)
(* q in accumPV_); with F2 = 1 it is the CTF value, with F2 = 0 the PV     *)
(* value.                                                                  *)
(***************************************************************************)
C2_Blend ==
    status = "ok" =>
        \A q \in WBPModes :
            /\ averagePressures[q] =
                   RAdd(RMul(LastControls.conn_weight, AvgOf(accumCTF.avg[q])),
                        RMul(RSub(One, LastControls.conn_weight), AvgOf(accumPV.avg[q])))
            /\ LastControls.conn_weight = One => averagePressures[q] = AvgOf(accumCTF.avg[q])
            /\ LastControls.conn_weight = Zero => averagePressures[q] = AvgOf(accumPV.avg[q])

C2_Witness ==
    /\ status = "ok"
    /\ LastControls.conn_weight = Half
    /\ AvgOf(accumCTF.avg[2]) # AvgOf(accumPV.avg[2])
    /\ averagePressures[2] # AvgOf(accumCTF.avg[2])
    /\ averagePressures[2] # AvgOf(accumPV.avg[2])

(***************************************************************************)
(* Steps of the accumulator specification.  nOps counts the add and commit *)
(* calls, so a step that raises it is one of them and lastOp' names it.    *)
(***************************************************************************)
AccStep(op) == nOps' = nOps + 1 /\ lastOp'.op = op

\* Sum added to sum and weight added to weight.
PooledSum(avg, terms)    == RAdd(avg.sum.value, terms.sum)
PooledWeight(avg, terms) == RAdd(avg.weight.value, terms.weight)
IsPooled(after, avg, terms) ==
    /\ after.sum.value = PooledSum(avg, terms)
    /\ after.weight.value = PooledWeight(avg, terms)

\* The sums and weights of one, two and three terms together.
Term1(a, i) == [sum |-> a.term[i].sum.value, weight |-> a.term[i].weight.value]
Term2(a, i, j) ==
    [sum    |-> RAdd(a.term[i].sum.value, a.term[j].sum.value),
     weight |-> RAdd(a.term[i].weight.value, a.term[j].weight.value)]
Term3(a) ==
    [sum    |-> RAdd(Term2(a, 0, 1).sum, a.term[2].sum.value),
     weight |-> RAdd(Term2(a, 0, 1).weight, a.term[2].weight.value)]

(***************************************************************************)
(* C3.  For every inner weight, commitContribution pools only the centre   *)
(* term into the WBP result and only the rectangular term into the WBP4    *)
(* result, sum added to sum and weight added to weight; addCentre and      *)
(* addDiagonal change neither the WBP4 result nor the rectangular term     *)
(* that feeds it, and addRectangular and addDiagonal change neither the    *)
(* WBP result nor the centre term that feeds it.                           *)
(***************************************************************************)
C3_Step ==
    /\ AccStep("commitContribution") =>
           /\ IsPooled(acc'.avg[0], acc.avg[0], Term1(acc, 0))
           /\ IsPooled(acc'.avg[1], acc.avg[1], Term1(acc, 1))
           /\ acc'.term = acc.term
    /\ (AccStep("addCentre") \/ AccStep("addDiagonal")) =>
           /\ acc'.avg[1] = acc.avg[1]
           /\ acc'.term[1] = acc.term[1]
    /\ (AccStep("addRectangular") \/ AccStep("addDiagonal")) =>
           /\ acc'.avg[0] = acc.avg[0]
           /\ acc'.term[0] = acc.term[0]

C3_CommitPoolsWBP == [][C3_Step]_vars

\* A commit with all three terms fed, whose WBP and WBP4 results differ.
C3_Witness ==
    /\ lastOp.op = "commitContribution"
    /\ \A i \in Terms : acc.term[i].weight.value # Zero
    /\ AvgOf(acc.avg[0]) = AvgOf(acc.term[0])
    /\ AvgOf(acc.avg[1]) = AvgOf(acc.term[1])
    /\ AvgOf(acc.avg[0]) # AvgOf(acc.avg[1])

(***************************************************************************)
(* C4.  On an accumulator whose results are zeroed, commitContribution(w)  *)
(* with w >= 0 yields WBP5 = w * value(centre) + (1 - w) *                 *)
(* value(rectangular) and WBP9 = w * value(centre) + (1 - w) * value(      *)
(* rectangular and diagonal pooled into one average); w = 0 gives WBP5 =   *)
(* value(rectangular) and w = 1 gives WBP5 = value(centre).                *)
(***************************************************************************)
ResultsZeroed(a) ==
    \A q \in WBPModes : a.avg[q].sum.value = Zero /\ a.avg[q].weight.value = Zero

InnerBlend(w, centre, outer) == RAdd(RMul(w, centre), RMul(RSub(One, w), outer))

C4_Step ==
    (/\ AccStep("commitContribution")
     /\ ~RLess(lastOp'.args[1], Zero)
     /\ ResultsZeroed(acc)) =>
        /\ AvgOf(acc'.avg[2]) =
               InnerBlend(lastOp'.args[1], AvgOf(acc.term[0]), AvgOf(acc.term[1]))
        /\ AvgOf(acc'.avg[3]) =
               InnerBlend(lastOp'.args[1], AvgOf(acc.term[0]),
                          Quotient(Term2(acc, 1, 2).sum, Term2(acc, 1, 2).weight))
        /\ lastOp'.args[1] = Zero => AvgOf(acc'.avg[2]) = AvgOf(acc.term[1])
        /\ lastOp'.args[1] = One => AvgOf(acc'.avg[2]) = AvgOf(acc.term[0])

C4_WeightedCommit == [][C4_Step]_vars

\* A first commit with w = 1/2 and all three terms fed: the results hold
\* WBP and WBP4 once and WBP5 and WBP9 with weight 1.
C4_Witness ==
    /\ lastOp = [op |-> "commitContribution", args |-> <<Half>>]
    /\ \A i \in Terms : acc.term[i].weight.value # Zero
    /\ acc.avg[0].weight.value = acc.term[0].weight.value
    /\ acc.avg[2].weight.value = One
    /\ AvgOf(acc.avg[2]) # AvgOf(acc.avg[3])

(***************************************************************************)
(* C5.  commitContribution(w) with any w < 0 pools the centre and          *)
(* rectangular terms into WBP5 and the centre, rectangular and diagonal    *)
(* terms into WBP9 at sum level, and the resulting accumulator is the same *)
(* for every negative w.                                                   *)
(***************************************************************************)
NegativeWeights == { w \in InnerWeightChoices : RLess(w, Zero) }

C5_Step ==
    (AccStep("commitContribution") /\ lastOp'.args[1] \in NegativeWeights) =>
        /\ IsPooled(acc'.avg[2], acc.avg[2], Term2(acc, 0, 1))
        /\ IsPooled(acc'.avg[3], acc.avg[3], Term3(acc))
        /\ \A w \in NegativeWeights : CommitContribution(acc, w) = acc'

C5_DirectCommit == [][C5_Step]_vars

\* A commit with w = -2 and all three terms fed, on results that already
\* held an earlier contribution.
C5_Witness ==
    /\ lastOp = [op |-> "commitContribution", args |-> <<R(-2)>>]
    /\ \A i \in Terms : acc.term[i].weight.value # Zero
    /\ acc.avg[3].weight.value # Term3(acc).weight
    /\ acc.avg[2].weight.value # acc.avg[3].weight.value

(***************************************************************************)
(* C6.  In every reachable state the value of a weighted running average   *)
(* whose total weight is exactly zero is 0; consequently getFinalResult on *)
(* an accumulator that received no samples, and                            *)
(* inferBlockAveragePressures over zero processed connections, return 0    *)
(* for all four quantities.                                                *)
(***************************************************************************)
C6_Accumulator(a) ==
    /\ \A q \in WBPModes :
           a.avg[q].weight.value = Zero => GetAverageValue(a, q) = Zero
    /\ \A i \in Terms :
           a.term[i].weight.value = Zero => Value(a.term[i]) = Zero
    /\ ResultsZeroed(a) => GetFinalResult(a) = ResultZero

C6_ZeroWeight ==
    /\ C6_Accumulator(accumCTF)
    /\ C6_Accumulator(accumPV)
    /\ (status = "ok" /\ Processed = <<>>) => averagePressures = ResultZero

\* A successful call on a well with connections, none of them processed.
C6_Witness ==
    /\ status = "ok"
    /\ wellConnections # <<>>
    /\ Processed = <<>>
    /\ ResultsZeroed(accumCTF)
    /\ averagePressures = ResultZero

(***************************************************************************)
(* C7.  When the depth correction is NONE, or gravity is 0, the pressure   *)
(* offset of every processed connection is 0 whatever the densities,       *)
(* depths and reference depth, and the offset vector has one entry per     *)
(* processed connection: the number of open connections when the open-     *)
(* connections flag is set, the number of all connections otherwise.       *)
(***************************************************************************)
C7_ZeroOffsets ==
    (/\ Called
     /\ LastControls.depth_correction = "NONE" \/ LastCall.gravity = Zero) =>
        /\ status = "ok"
        /\ Len(connDP) = Len(Processed)
        /\ \A k \in 1..Len(connDP) : connDP[k] = Zero

\* Gravity 0 under RES with the flag set, on a well with one connection
\* shut and one open.
C7_Witness ==
    /\ status = "ok"
    /\ LastControls.depth_correction = "RES"
    /\ LastCall.gravity = Zero
    /\ LastControls.open_connections
    /\ Len(wellConnections) = 2
    /\ connDP = <<Zero>>

(***************************************************************************)
(* C8.  Whenever inferBlockAveragePressures is invoked with a depth        *)
(* correction that is none of NONE, WELL, RES and with a non-zero gravity, *)
(* the invocation fails with the unsupported-configuration error, for both *)
(* settings of the open-connections flag.                                  *)
(***************************************************************************)
UnsupportedMode == LastControls.depth_correction \notin {"NONE", "WELL", "RES"}

C8_UnsupportedModeFails ==
    (Called /\ UnsupportedMode /\ LastCall.gravity # Zero) => status = "error"

C8_Witness ==
    /\ status = "error"
    /\ UnsupportedMode
    /\ LastCall.gravity # Zero
    /\ wellConnections # <<>>

\* The same for every gravity value: refuted by a call with gravity 0,
\* which returns zero offsets before the mode is looked at.
C8_FailsForEveryGravity ==
    (Called /\ UnsupportedMode) => status = "error"

(***************************************************************************)
(* C9.  In WELL mode with non-zero gravity, slot k of the offset vector is *)
(* density(c) * (refDepth - depth(c)) * gravity, where c is the k-th       *)
(* connection when all connections are processed and the k-th OPEN         *)
(* connection when only open connections are, and density(c) is the        *)
(* mixture density of the per-connection source entry at index c; density  *)
(* 1000, depth 10, refDepth 0, gravity 10 gives -100000.                   *)
(***************************************************************************)
HydrostaticHead(density, depth) ==
    RMul(RMul(density, RSub(LastCall.refDepth, depth)), LastCall.gravity)

C9_Slot(k) ==
    connDP[k] = HydrostaticHead(LastSources.wellConns[Processed[k]].MixtureDensity,
                                wellConnections[Processed[k] + 1].depth)

C9_Example(k) ==
    (/\ LastSources.wellConns[Processed[k]].MixtureDensity = R(1000)
     /\ wellConnections[Processed[k] + 1].depth = R(10)
     /\ LastCall.refDepth = Zero
     /\ LastCall.gravity = R(10)) => connDP[k] = R(-100000)

C9_WellOffsets ==
    (/\ Called
     /\ LastControls.depth_correction = "WELL"
     /\ LastCall.gravity # Zero) =>
        /\ status = "ok"
        /\ Len(connDP) = Len(Processed)
        /\ \A k \in 1..Len(connDP) : C9_Slot(k) /\ C9_Example(k)

\* Only open connections processed, the first connection shut: slot 0 is
\* the second connection, with density 1000 and depth 10.
C9_Witness ==
    /\ status = "ok"
    /\ LastControls.depth_correction = "WELL"
    /\ LastControls.open_connections
    /\ Processed = <<1>>
    /\ LastSources.wellConns[1].MixtureDensity = R(1000)
    /\ connDP = <<R(-100000)>>

(***************************************************************************)
(* C10.  In RES mode with non-zero gravity, the density used for a         *)
(* processed connection is the pore-volume-weighted average of the mixture *)
(* densities of exactly the connection's own cell and all cells of its     *)
(* rectangular and diagonal neighbour lists, computed afresh for every     *)
(* connection, and is 0 when their total pore volume is 0.                 *)
(***************************************************************************)
\* The cells of connection c (local indices), neighbour lists as built.
CellsAround(c) ==
    <<connections[c + 1].cell>> \o connections[c + 1].rectNeighbours
                                \o connections[c + 1].diagNeighbours

RECURSIVE PoreVolume(_)
PoreVolume(cells) ==
    IF cells = <<>> THEN Zero
    ELSE RAdd(CellData(Head(cells)).PoreVol, PoreVolume(Tail(cells)))

RECURSIVE Mass(_)
Mass(cells) ==
    IF cells = <<>> THEN Zero
    ELSE RAdd(RMul(CellData(Head(cells)).PoreVol, CellData(Head(cells)).MixtureDensity),
              Mass(Tail(cells)))

ResDensity(c) == Quotient(Mass(CellsAround(c)), PoreVolume(CellsAround(c)))

C10_Slot(k) ==
    /\ connDP[k] = HydrostaticHead(ResDensity(Processed[k]),
                                   wellConnections[Processed[k] + 1].depth)
    /\ PoreVolume(CellsAround(Processed[k])) = Zero => connDP[k] = Zero

C10_ResOffsets ==
    (/\ Called
     /\ LastControls.depth_correction = "RES"
     /\ LastCall.gravity # Zero) =>
        /\ status = "ok"
        /\ Len(connDP) = Len(Processed)
        /\ \A k \in 1..Len(connDP) : C10_Slot(k)

\* Two processed connections with different neighbourhoods and different,
\* non-zero offsets.
C10_Witness ==
    /\ status = "ok"
    /\ LastControls.depth_correction = "RES"
    /\ LastCall.gravity # Zero
    /\ Len(connDP) = 2
    /\ connDP[1] # Zero
    /\ connDP[2] # Zero
    /\ ResDensity(Processed[1]) # ResDensity(Processed[2])
    /\ PoreVolume(CellsAround(Processed[1])) # PoreVolume(CellsAround(Processed[2]))

(***************************************************************************)
(* Vocabulary of the accumulation properties: what one call samples,       *)
(* written with plain sums over the connections the call processes.        *)
(***************************************************************************)
\* The cells (local indices) connection c samples into term t: its own
\* cell (0), its rectangular (1) or its diagonal (2) neighbour list.
ListOf(c, t) ==
    IF t = 0 THEN <<connections[c + 1].cell>>
    ELSE IF t = 1 THEN connections[c + 1].rectNeighbours
    ELSE connections[c + 1].diagNeighbours

\* The weight of cell i's sample: its pore volume in the pore-volume
\* estimate (pv) and for F1 < 0, else 1.
SampleWeight(i, pv) ==
    IF pv \/ RLess(LastControls.inner_weight, Zero)
    THEN CellData(i).PoreVol
    ELSE One

\* Sum of weight * (raw pressure + offset of slot k) over cells.
RECURSIVE WeightedPressure(_, _, _)
WeightedPressure(cells, k, pv) ==
    IF cells = <<>> THEN Zero
    ELSE RAdd(RMul(SampleWeight(Head(cells), pv),
                   RAdd(CellData(Head(cells)).Pressure, connDP[k])),
              WeightedPressure(Tail(cells), k, pv))

RECURSIVE TotalWeight(_, _)
TotalWeight(cells, pv) ==
    IF cells = <<>> THEN Zero
    ELSE RAdd(SampleWeight(Head(cells), pv), TotalWeight(Tail(cells), pv))

\* The pore-volume-weighted samples of term t over the first k slots.
RECURSIVE PVTermSum(_, _)
PVTermSum(t, k) ==
    IF k = 0 THEN Zero
    ELSE RAdd(PVTermSum(t, k - 1), WeightedPressure(ListOf(Processed[k], t), k, TRUE))

RECURSIVE PVTermWeight(_, _)
PVTermWeight(t, k) ==
    IF k = 0 THEN Zero
    ELSE RAdd(PVTermWeight(t, k - 1), TotalWeight(ListOf(Processed[k], t), TRUE))

\* The average of slot k's samples of term t in the CTF-based estimate.
SlotAverage(t, k) ==
    Quotient(WeightedPressure(ListOf(Processed[k], t), k, FALSE),
             TotalWeight(ListOf(Processed[k], t), FALSE))

\* CTF * (average of term t), summed over the first k slots.
RECURSIVE CTFSum(_, _)
CTFSum(t, k) ==
    IF k = 0 THEN Zero
    ELSE RAdd(CTFSum(t, k - 1),
              RMul(connections[Processed[k] + 1].ctf, SlotAverage(t, k)))

RECURSIVE ProcessedCTF(_)
ProcessedCTF(k) ==
    IF k = 0 THEN Zero
    ELSE RAdd(ProcessedCTF(k - 1), wellConnections[Processed[k] + 1].CF)

\* The pore volumes of the cells of the first k processed connections.
RECURSIVE ProcessedCellPV(_)
ProcessedCellPV(k) ==
    IF k = 0 THEN Zero
    ELSE RAdd(ProcessedCellPV(k - 1),
              LastSources.wellBlocks[wellConnections[Processed[k] + 1].global_index].PoreVol)

OpenListExact ==
    /\ \A n \in 1..Len(openConns) :
           /\ openConns[n] \in 0..(Len(wellConnections) - 1)
           /\ wellConnections[openConns[n] + 1].state = "OPEN"
    /\ \A n \in 1..(Len(openConns) - 1) : openConns[n] < openConns[n + 1]
    /\ \A c \in 1..Len(wellConnections) :
           wellConnections[c].state = "OPEN" =>
               \E n \in 1..Len(openConns) : openConns[n] = c - 1

C12_ProcessedConnections ==
    /\ OpenListExact
    /\ status = "ok" =>
           /\ Len(connDP) = Len(Processed)
           /\ \A q \in WBPModes :
                  accumCTF.avg[q].weight.value = ProcessedCTF(Len(Processed))
           /\ accumPV.term[0].weight.value = ProcessedCellPV(Len(Processed))
           /\ accumPV.avg[0].weight.value = ProcessedCellPV(Len(Processed))
           /\ accumPV.term[0].sum.value = PVTermSum(0, Len(Processed))

\* Only open connections processed, on a well whose first connection is
\* open and whose second is shut: one connection adds weight.
C12_Witness ==
    /\ status = "ok"
    /\ LastControls.open_connections
    /\ Len(wellConnections) = 2
    /\ wellConnections[2].state # "OPEN"
    /\ openConns = <<0>>
    /\ accumCTF.avg[0].weight.value = wellConnections[1].CF
    /\ accumPV.term[0].weight.value # Zero


(***************************************************************************)
(* Vocabulary of the pruning properties.  Every step of the pruning        *)
(* specification that changes the state is a call of                       *)
(* pruneInactiveWBPCells, with the mask lastArgs' records.                 *)
(***************************************************************************)
PruneMask == lastArgs'[1].isActive

\* The elements of seq at the positions where mask holds, order kept.
RECURSIVE KeepActive(_, _)
KeepActive(seq, mask) ==
    IF seq = <<>> THEN <<>>
    ELSE IF Head(mask)
         THEN <<Head(seq)>> \o KeepActive(Tail(seq), Tail(mask))
         ELSE KeepActive(Tail(seq), Tail(mask))

\* The global cell ids the local indices of list denote in cells.
GlobalIds(cells, list) == [n \in 1..Len(list) |-> cells[list[n] + 1]]

\* The same, for the entries of list that are active in mask only.
RECURSIVE ActiveGlobalIds(_, _, _)
ActiveGlobalIds(cells, list, mask) ==
    IF list = <<>> THEN <<>>
    ELSE IF mask[Head(list) + 1]
         THEN <<cells[Head(list) + 1]>> \o ActiveGlobalIds(cells, Tail(list), mask)
         ELSE ActiveGlobalIds(cells, Tail(list), mask)

AllTrue(mask) == \A n \in 1..Len(mask) : mask[n]

\* Connection c's own cell is a contributing cell that mask keeps.
OwnCellActive(c, mask) ==
    /\ connections[c].cell < Len(mask)
    /\ mask[connections[c].cell + 1]

(***************************************************************************)
(* C13.  pruneInactiveWBPCells(mask) keeps what every stored index refers  *)
(* to: the new contributing-cell list is the subsequence of the old one at *)
(* the active positions, and for every connection whose own cell is active *)
(* the global cell id of its cell is unchanged and the global cell ids     *)
(* reached through its rectangular (diagonal) neighbour list are the old   *)
(* ones with exactly the inactive cells removed; with an all-true mask the *)
(* contributing-cell list and all connections are unchanged.               *)
(***************************************************************************)
C13_Connection(c) ==
    /\ contributingCells'[connections'[c].cell + 1] =
           contributingCells[connections[c].cell + 1]
    /\ GlobalIds(contributingCells', connections'[c].rectNeighbours) =
           ActiveGlobalIds(contributingCells, connections[c].rectNeighbours, PruneMask)
    /\ GlobalIds(contributingCells', connections'[c].diagNeighbours) =
           ActiveGlobalIds(contributingCells, connections[c].diagNeighbours, PruneMask)

C13_Step ==
    /\ Len(PruneMask) = Len(contributingCells)
    /\ contributingCells' = KeepActive(contributingCells, PruneMask)
    /\ Len(connections') = Len(connections)
    /\ \A c \in 1..Len(connections) :
           OwnCellActive(c, PruneMask) => C13_Connection(c)
    /\ AllTrue(PruneMask) =>
           /\ contributingCells' = contributingCells
           /\ connections' = connections

C13_PruneKeepsReferences == [][C13_Step]_vars

\* After a call whose mask drops one cell of a well constructed with four
\* contributing cells: a connection has lost a rectangular neighbour, kept
\* another, and its own cell has a new local index.
C13_Witness ==
    /\ lastArgs # <<>>
    /\ Len(lastArgs[1].isActive) = 4
    /\ Len(contributingCells) = 3
    /\ \E c \in 1..Len(connections) :
           /\ Len(connections[c].rectNeighbours) = 1
           /\ Len(Construct(wellConnections).conns[c].rectNeighbours) = 2
           /\ connections[c].cell # Construct(wellConnections).conns[c].cell
           /\ contributingCells[connections[c].cell + 1] = wellConnections[c].global_index

(***************************************************************************)
(* C20.  After construction and after any call to pruneInactiveWBPCells    *)
(* with a mask of the contributing-cell list's length that keeps every     *)
(* connection's own cell active, every connection's cell index and every   *)
(* index in every rectangular and diagonal neighbour list is a valid index *)
(* (less than the length) into the contributing-cell list, and still       *)
(* denotes the same global cell as before the call.                        *)
(***************************************************************************)
ValidList(list, n) == \A k \in 1..Len(list) : list[k] \in 0..(n - 1)

ValidIndices(cells, conns) ==
    \A c \in 1..Len(conns) :
        /\ conns[c].cell \in 0..(Len(cells) - 1)
        /\ ValidList(conns[c].rectNeighbours, Len(cells))
        /\ ValidList(conns[c].diagNeighbours, Len(cells))

\* Every index the call keeps denotes the global cell it denoted before.
SameCellsDenoted ==
    \A c \in 1..Len(connections) :
        /\ contributingCells'[connections'[c].cell + 1] =
               contributingCells[connections[c].cell + 1]
        /\ GlobalIds(contributingCells', connections'[c].rectNeighbours) =
               ActiveGlobalIds(contributingCells, connections[c].rectNeighbours, PruneMask)
        /\ GlobalIds(contributingCells', connections'[c].diagNeighbours) =
               ActiveGlobalIds(contributingCells, connections[c].diagNeighbours, PruneMask)

PruneKeepsIndices ==
    /\ Len(connections') = Len(connections)
    /\ ValidIndices(contributingCells', connections')
    /\ SameCellsDenoted

C20_Step ==
    (/\ ValidIndices(contributingCells, connections)
     /\ \A c \in 1..Len(connections) : OwnCellActive(c, PruneMask)) => PruneKeepsIndices

BothRanksFed == \A r \in Ranks : rankAcc[r].avg[0].weight.value # Zero

\* C14: when the connections are split over two Accumulators fed with
\* add(weight, other), assigning the element-wise sum of their two
\* getRunningAverages buffers gives the getFinalResult of one Accumulator
\* fed every connection, and assigning an Accumulator its own
\* getRunningAverages buffer leaves its getFinalResult unchanged.
C14_ReductionExact ==
    /\ rankOp = "reduce" =>
          /\ GetFinalResult(reducedAcc) = GetFinalResult(wholeAcc)
          /\ GetRunningAverages(reducedAcc) = GetRunningAverages(wholeAcc)
    /\ rankOp = "reinject" =>
          GetFinalResult(reducedAcc) = GetFinalResult(wholeAcc)

\* A reduction over two ranks that were both fed, three connections in
\* all, with a WBP result that is neither rank's own.
C14_Witness ==
    /\ rankOp = "reduce"
    /\ nAdds = 3
    /\ BothRanksFed
    /\ \A r \in Ranks : GetFinalResult(rankAcc[r])[0] # GetFinalResult(reducedAcc)[0]
    /\ GetFinalResult(reducedAcc)[3] # GetFinalResult(reducedAcc)[0]

(***************************************************************************)
(* C16.  Weight-1 samples: the arithmetic mean.                            *)
(***************************************************************************)
\* The plain sum of a sequence of samples.
RECURSIVE PlainSum(_)
PlainSum(seq) == IF seq = <<>> THEN Zero ELSE RAdd(Head(seq), PlainSum(Tail(seq)))

\* C16: after any sequence of add(x) calls with weight 1 on a cleared
\* average, value() is the arithmetic mean of the samples: the sum is the
\* plain sum of the samples with nothing left in the error term, and the
\* weight is their number.
C16_ArithmeticMean ==
    /\ mean.sum.value = PlainSum(samples)
    /\ mean.sum.err = Zero
    /\ mean.weight.value = R(Len(samples))
    /\ samples # <<>> => Value(mean) = RDiv(PlainSum(samples), R(Len(samples)))

\* Three different samples whose mean is none of them.
C16_Witness ==
    /\ Len(samples) = 3
    /\ samples[1] # samples[2]
    /\ samples[2] # samples[3]
    /\ \A k \in 1..3 : Value(mean) # samples[k]
    /\ Value(mean) # Zero

(***************************************************************************)
(* C17.  How inferBlockAveragePressures fills the pore-volume-based        *)
(* accumulator.                                                            *)
(***************************************************************************)
\* The pooled samples of the terms t of ts over every processed connection.
RECURSIVE PooledPVSum(_)
PooledPVSum(ts) ==
    IF ts = <<>> THEN Zero
    ELSE RAdd(PVTermSum(Head(ts), Len(Processed)), PooledPVSum(Tail(ts)))

RECURSIVE PooledPVWeight(_)
PooledPVWeight(ts) ==
    IF ts = <<>> THEN Zero
    ELSE RAdd(PVTermWeight(Head(ts), Len(Processed)), PooledPVWeight(Tail(ts)))

\* The terms that enter result q when the terms are pooled directly.
TermsOf(q) ==
    IF q = 0 THEN <<0>> ELSE IF q = 1 THEN <<1>> ELSE IF q = 2 THEN <<0, 1>> ELSE <<0, 1, 2>>

F1 == LastControls.inner_weight

\* The samples of slot k in the terms ts, pooled, with the weights of the
\* CTF-based estimate.
RECURSIVE SlotSum(_, _)
SlotSum(ts, k) ==
    IF ts = <<>> THEN Zero
    ELSE RAdd(WeightedPressure(ListOf(Processed[k], Head(ts)), k, FALSE),
              SlotSum(Tail(ts), k))

RECURSIVE SlotWeight(_, _)
SlotWeight(ts, k) ==
    IF ts = <<>> THEN Zero
    ELSE RAdd(TotalWeight(ListOf(Processed[k], Head(ts)), FALSE), SlotWeight(Tail(ts), k))

SlotPooled(ts, k) == Quotient(SlotSum(ts, k), SlotWeight(ts, k))

\* The value of result q of slot k's committed contribution: terms pooled
\* for F1 < 0, centre and outer terms blended with F1 otherwise.
ConnValue(q, k) ==
    IF q < 2 THEN SlotPooled(<<q>>, k)
    ELSE IF RLess(F1, Zero) THEN SlotPooled(TermsOf(q), k)
    ELSE InnerBlend(F1, SlotPooled(<<0>>, k), SlotPooled(Tail(TermsOf(q)), k))

RECURSIVE CTFResultSum(_, _)
CTFResultSum(q, k) ==
    IF k = 0 THEN Zero
    ELSE RAdd(CTFResultSum(q, k - 1),
              RMul(connections[Processed[k] + 1].ctf, ConnValue(q, k)))

\* The CTF-based estimate follows the sign of F1.
CTFFollowsF1 ==
    \A q \in WBPModes : accumCTF.avg[q].sum.value = CTFResultSum(q, Len(Processed))

\* The pore-volume-based estimate as the code computes it: pore-volume
\* weights and direct pooling, whatever F1.
PVIgnoresF1 ==
    /\ \A t \in Terms : accumPV.term[t].weight.value = PVTermWeight(t, Len(Processed))
    /\ \A q \in {2, 3} : AvgOf(accumPV.avg[q]) =
           Quotient(PooledPVSum(TermsOf(q)), PooledPVWeight(TermsOf(q)))

\* The pore-volume-based estimate as the statement has it for F1 >= 0: one
\* sample of weight 1 per processed connection in the centre term, and
\* WBP5 the F1-blend of the centre and rectangular terms.
PVFollowsF1 ==
    ~RLess(F1, Zero) =>
        /\ accumPV.term[0].weight.value = R(Len(Processed))
        /\ AvgOf(accumPV.avg[2]) =
               InnerBlend(F1, AvgOf(accumPV.term[0]), AvgOf(accumPV.term[1]))

IsEmpty(avg) == avg.weight.value = Zero

SameSums(a, b) == a.sum.value = b.sum.value /\ a.weight.value = b.weight.value

\* add(weight, other) with a contribution whose WBP4 is empty leaves the
\* WBP4 sum and weight as they were.
C19_FoldStep ==
    (AccStep("add") /\ IsEmpty(lastOp'.args[2].avg[1])) =>
        SameSums(acc'.avg[1], acc.avg[1])

\* commitContribution(w), w >= 0, with an empty outer term: the result
\* receives the centre term with weight w and nothing else.
CentreOnly(new, old, w, centre) ==
    /\ new.sum.value = RAdd(old.sum.value, RMul(w, AvgOf(centre)))
    /\ new.weight.value = RAdd(old.weight.value, w)

C19_CommitStep ==
    (AccStep("commitContribution") /\ ~RLess(lastOp'.args[1], Zero)) =>
        /\ IsEmpty(acc.term[1]) =>
               CentreOnly(acc'.avg[2], acc.avg[2], lastOp'.args[1], acc.term[0])
        /\ (IsEmpty(acc.term[1]) /\ IsEmpty(acc.term[2])) =>
               CentreOnly(acc'.avg[3], acc.avg[3], lastOp'.args[1], acc.term[0])

C19_FoldOnly == [][C19_FoldStep]_vars
C19_CommitOnly == [][C19_CommitStep]_vars

\* C19: an empty neighbour set contributes nothing: folding a connection
\* without rectangular neighbours leaves the WBP4 sum and weight unchanged,
\* and with F1 >= 0 an empty rectangular (rectangular and diagonal) term
\* adds neither sum nor weight to WBP5 (WBP9).
C19_EmptyContributesNothing == [][C19_FoldStep /\ C19_CommitStep]_vars

(***************************************************************************)
(* C15.  History independence of inferBlockAveragePressures.               *)
(***************************************************************************)
\* What a freshly constructed calculator with the same topology holds
\* after one call with the arguments args.
FreshCall2(args, off) ==
    AccumulateLoop(PrepareAccumulation(AccumulatorNew), PrepareAccumulation(AccumulatorNew),
                   Topo, args.sources, args.controls, off.dp,
                   args.controls.open_connections)

FreshCall(args) ==
    FreshCall2(args, ConnectionPressureOffset(Topo, args.sources, args.controls,
                                              args.gravity, args.refDepth))

SameAsFresh(r) ==
    /\ accumCTF = r.ctf
    /\ accumPV = r.pv
    /\ averagePressures = AssignResults(r.ctf, r.pv, LastControls)

TopologyKept ==
    /\ wellConnections' = wellConnections
    /\ contributingCells' = contributingCells
    /\ connections' = connections
    /\ openConns' = openConns

\* C15: after any sequence of successful inferBlockAveragePressures calls
\* the two accumulators and the published Result are those of a fresh
\* calculator with the same topology after the last call alone, and no call
\* changes the contributing cells, the connections or their neighbour lists.
C15_HistoryIndependent ==
    /\ [](status = "ok" => SameAsFresh(FreshCall(lastArgs[1])))
    /\ [][TopologyKept]_vars

\* A second call whose sources and controls differ from the first call's,
\* both with results, and a Result that differs from the first call's.
C15_Witness ==
    /\ status = "ok"
    /\ Len(lastArgs) = 2
    /\ lastArgs[1].sources # lastArgs[2].sources
    /\ lastArgs[1].controls.inner_weight # lastArgs[2].controls.inner_weight
    /\ lastArgs[1].controls.open_connections # lastArgs[2].controls.open_connections
    /\ averagePressures[3] # Zero
    /\ averagePressures # AssignResults(FreshCall(lastArgs[2]).ctf, FreshCall(lastArgs[2]).pv,
                                        lastArgs[2].controls)

(***************************************************************************)
(* C21.  The contributing-cell list after construction.                    *)
(***************************************************************************)
\* The global cell ids connection c (from 1) refers to, in the order the
\* constructor meets them: its own cell, its rectangular neighbours, its
\* diagonal neighbours.
Visited(c) ==
    <<contributingCells[connections[c].cell + 1]>>
    \o GlobalIds(contributingCells, connections[c].rectNeighbours)
    \o GlobalIds(contributingCells, connections[c].diagNeighbours)

RECURSIVE VisitedUpTo(_)
VisitedUpTo(c) == IF c = 0 THEN <<>> ELSE VisitedUpTo(c - 1) \o Visited(c)

\* seq without the later occurrences of its elements.
RECURSIVE FirstAppearances(_)
FirstAppearances(seq) ==
    IF seq = <<>> THEN <<>>
    ELSE IF \E n \in 1..(Len(seq) - 1) : seq[n] = seq[Len(seq)]
         THEN FirstAppearances(SubSeq(seq, 1, Len(seq) - 1))
         ELSE Append(FirstAppearances(SubSeq(seq, 1, Len(seq) - 1)), seq[Len(seq)])

NoCellTwice ==
    \A m, n \in 1..Len(contributingCells) :
        contributingCells[m] = contributingCells[n] => m = n

\* C21: after construction the contributing-cell list holds no global cell
\* id twice and lists the cells in order of first appearance (a
\* connection's own cell, then its rectangular, then its diagonal
\* neighbours, connection after connection), so a cell met again has the
\* local index it got first; connection n's cell index denotes connection
\* n's global cell id.
C21_FirstSeenOrder ==
    /\ Len(connections) = Len(wellConnections)
    /\ NoCellTwice
    /\ ValidIndices(contributingCells, connections)
    /\ contributingCells = FirstAppearances(VisitedUpTo(Len(connections)))
    /\ \A c \in 1..Len(connections) :
           contributingCells[connections[c].cell + 1] = wellConnections[c].global_index

\* Two connections; the second one's cell was first met as a neighbour of
\* the first, so it keeps that index, and the second adds a cell of its own.
C21_Witness ==
    /\ Len(connections) = 2
    /\ connections[2].cell # connections[1].cell
    /\ \E n \in 1..Len(connections[1].rectNeighbours) :
           connections[1].rectNeighbours[n] = connections[2].cell
    /\ Len(contributingCells) < Len(VisitedUpTo(2))
    /\ \E n \in 1..Len(connections[2].rectNeighbours) :
           connections[2].rectNeighbours[n] >= Len(Visited(1))

(***************************************************************************)
(* C22.  Which cells are a connection's neighbours.                        *)
(***************************************************************************)
\* The axis (1, 2, 3 for I, J, K) a direction names.
AxisOf(dir) == IF dir = "X" THEN 1 ELSE IF dir = "Y" THEN 2 ELSE 3

\* |a - b| for cell coordinates.
Dist(a, b) == IF a < b THEN b - a ELSE a - b

\* The cells of the grid at distance (along the two axes other than d)
\* one step along one axis (steps = 1) or one step along both (steps = 2)
\* from cell g, with the coordinate along d unchanged.
CellsAt(g, d, steps) ==
    { h \in GridCells :
        /\ GetIJK(h)[d] = GetIJK(g)[d]
        /\ \A a \in 1..3 : Dist(GetIJK(h)[a], GetIJK(g)[a]) <= 1
        /\ Cardinality({ a \in 1..3 : GetIJK(h)[a] # GetIJK(g)[a] }) = steps }

\* The global cell ids of a neighbour list, as a set.
ListCells(list) == { contributingCells[list[n] + 1] : n \in 1..Len(list) }

\* list names exactly the cells of set, each once.
ExactlyOnce(list, set) == ListCells(list) = set /\ Len(list) = Cardinality(set)

\* The neighbour lists hold exactly the in-bounds candidates.
C22_InBoundsOnly ==
    \A c \in 1..Len(connections) :
        /\ ExactlyOnce(connections[c].rectNeighbours,
                       CellsAt(wellConnections[c].global_index,
                               AxisOf(wellConnections[c].dir), 1))
        /\ ExactlyOnce(connections[c].diagNeighbours,
                       CellsAt(wellConnections[c].global_index,
                               AxisOf(wellConnections[c].dir), 2))
        /\ Len(connections[c].rectNeighbours) <= 4
        /\ Len(connections[c].diagNeighbours) <= 4

\* The sets of active cells a grid may have in which every connection's
\* own cell is active.
ActivityChoices ==
    { active \in SUBSET GridCells :
        \A c \in 1..Len(wellConnections) : wellConnections[c].global_index \in active }

\* C22: whatever cells of the grid are active, a connection's rectangular
\* list is exactly the in-bounds, active cells one step away along one of
\* the two axes other than its direction, and its diagonal list exactly the
\* in-bounds, active cells one step away along both; a step from
\* coordinate 0 downwards or from the last coordinate upwards is dropped.
C22_InBoundsActive ==
    \A active \in ActivityChoices :
        \A c \in 1..Len(connections) :
            /\ ExactlyOnce(connections[c].rectNeighbours,
                           active \cap CellsAt(wellConnections[c].global_index,
                                               AxisOf(wellConnections[c].dir), 1))
            /\ ExactlyOnce(connections[c].diagNeighbours,
                           active \cap CellsAt(wellConnections[c].global_index,
                                               AxisOf(wellConnections[c].dir), 2))

(***************************************************************************)
(* C23.  Which source entries inferBlockAveragePressures reads.            *)
(***************************************************************************)
\* The per-cell source entry read for the contributing cell with local
\* index i: addressed by i itself (byLocal) or by the global cell id
\* stored at position i of the contributing-cell list.
Entry(i, byLocal) ==
    LastSources.wellBlocks[IF byLocal THEN i ELSE At(contributingCells, i)]

RECURSIVE SrcPoreVol(_, _)
SrcPoreVol(cells, byLocal) ==
    IF cells = <<>> THEN Zero
    ELSE RAdd(Entry(Head(cells), byLocal).PoreVol, SrcPoreVol(Tail(cells), byLocal))

RECURSIVE SrcMass(_, _)
SrcMass(cells, byLocal) ==
    IF cells = <<>> THEN Zero
    ELSE RAdd(RMul(Entry(Head(cells), byLocal).PoreVol,
                   Entry(Head(cells), byLocal).MixtureDensity),
              SrcMass(Tail(cells), byLocal))

\* Sum of PoreVol * (Pressure + offset of slot k) over cells.
RECURSIVE SrcPressure(_, _, _)
SrcPressure(cells, k, byLocal) ==
    IF cells = <<>> THEN Zero
    ELSE RAdd(RMul(Entry(Head(cells), byLocal).PoreVol,
                   RAdd(Entry(Head(cells), byLocal).Pressure, connDP[k])),
              SrcPressure(Tail(cells), k, byLocal))

RECURSIVE SrcTermSum(_, _, _)
SrcTermSum(t, k, byLocal) ==
    IF k = 0 THEN Zero
    ELSE RAdd(SrcTermSum(t, k - 1, byLocal),
              SrcPressure(ListOf(Processed[k], t), k, byLocal))

RECURSIVE SrcTermWeight(_, _, _)
SrcTermWeight(t, k, byLocal) ==
    IF k = 0 THEN Zero
    ELSE RAdd(SrcTermWeight(t, k - 1, byLocal),
              SrcPoreVol(ListOf(Processed[k], t), byLocal))

\* The accumulation read Pressure and PoreVol from Entry(i, byLocal).
SamplesRead(byLocal) ==
    \A t \in Terms :
        /\ accumPV.term[t].sum.value = SrcTermSum(t, Len(Processed), byLocal)
        /\ accumPV.term[t].weight.value = SrcTermWeight(t, Len(Processed), byLocal)

\* The RES density read MixtureDensity and PoreVol from Entry(i, byLocal).
ResDensityRead(byLocal) ==
    (LastControls.depth_correction = "RES" /\ LastCall.gravity # Zero) =>
        \A k \in 1..Len(connDP) :
            connDP[k] = HydrostaticHead(
                            Quotient(SrcMass(CellsAround(Processed[k]), byLocal),
                                     SrcPoreVol(CellsAround(Processed[k]), byLocal)),
                            wellConnections[Processed[k] + 1].depth)

\* The WELL density is the per-connection entry at the connection index.
WellDensityRead ==
    (LastControls.depth_correction = "WELL" /\ LastCall.gravity # Zero) =>
        \A k \in 1..Len(connDP) :
            connDP[k] = HydrostaticHead(LastSources.wellConns[Processed[k]].MixtureDensity,
                                        wellConnections[Processed[k] + 1].depth)

C24_FailStep ==
    status' = "error" =>
        /\ averagePressures' = averagePressures
        /\ TopologyKept

\* What a calculator with this topology publishes after one call with the
\* arguments args and no call before it.
FreshResult(args) ==
    AssignResults(FreshCall(args).ctf, FreshCall(args).pv, args.controls)

\* C24: a call of inferBlockAveragePressures that fails with the
\* unsupported-depth-correction error leaves the published Result and the
\* topology unchanged, and a successful call publishes the Result of its
\* own arguments alone, whether or not failed calls came before it.
C24_FailureLeavesResult ==
    /\ [][C24_FailStep]_vars
    /\ [](status = "ok" => averagePressures = FreshResult(lastArgs[1]))

\* A failed call after a successful one: the Result of the successful call
\* is still published, while the accumulators' results have been zeroed.
C24_Witness ==
    /\ status = "error"
    /\ Len(lastArgs) = 2
    /\ lastArgs[2].controls.depth_correction = "RES"
    /\ averagePressures = FreshResult(lastArgs[2])
    /\ averagePressures[0] # Zero
    /\ GetFinalResult(accumCTF) = ResultZero

\* A successful call right after a failed one.
C24_LaterSuccess ==
    /\ status = "ok"
    /\ Len(lastArgs) = 2
    /\ lastArgs[2].controls.depth_correction = "OTHER"
    /\ averagePressures[0] # Zero
====
